---- MODULE Spec2Model ----
(***************************************************************************)
(* A model of bitvek's BitVec: a bit vector packed into machine words.     *)
(* A Word is a natural number below 2^WORD_BITS, bit offset 0 being its    *)
(* most significant bit; a BitVec is the record of its two fields, len and *)
(* buf, together with the capacity of buf.                                  *)
(***************************************************************************)
EXTENDS Integers, Sequences, FiniteSets, TLC

VARIABLES vec, old, last, it, twin

vars == <<vec, old, last, it, twin>>

(***************************************************************************)
(* Bounds.  The word is scaled down: a byte has BYTE_BITS bits and a word  *)
(* WORD_BYTES bytes.  MaxLen caps the length a vector grows to.             *)
(***************************************************************************)
BYTE_BITS == 2

WORD_BYTES == 2

MaxLen == 6

\* Word::BITS and Word::BYTES
WORD_BITS == WORD_BYTES * BYTE_BITS

\* usize::MAX and Byte::MAX
USIZE_MAX == 2^WORD_BITS - 1

BYTE_MAX == 2^BYTE_BITS - 1

Bit == BOOLEAN

Byte == 0..BYTE_MAX

(***************************************************************************)
(* Word arithmetic (primitive.rs).                                          *)
(***************************************************************************)
RECURSIVE word_fold(_, _, _, _)
\* the bitwise operator op applied to the low n bits of a and b
word_fold(op, a, b, n) ==
    IF n = 0 THEN 0
    ELSE LET x == a % 2
             y == b % 2
             z == CASE op = "and" -> IF x = 1 /\ y = 1 THEN 1 ELSE 0
                    [] op = "or"  -> IF x = 1 \/ y = 1 THEN 1 ELSE 0
                    [] op = "xor" -> IF x # y THEN 1 ELSE 0
         IN  z + 2 * word_fold(op, a \div 2, b \div 2, n - 1)

word_bitand(a, b) == word_fold("and", a, b, WORD_BITS)

word_bitor(a, b) == word_fold("or", a, b, WORD_BITS)

word_bitxor(a, b) == word_fold("xor", a, b, WORD_BITS)

word_not(a) == USIZE_MAX - a

word_shr(a, n) == a \div 2^n

word_shl(a, n) == (a * 2^n) % 2^WORD_BITS

mask(index) == word_shl(1, WORD_BITS - 1 - index)

MSB_SET == mask(0)

MSB_CLEAR == 0

CLEAR == 0

word_get(w, index) == word_bitand(w, mask(index)) # 0

word_set(w, index, value) ==
    IF value THEN word_bitor(w, mask(index))
    ELSE word_bitand(w, word_not(mask(index)))

align_last_to_lsb(w, last_) == word_shr(w, WORD_BITS - 1 - last_)

RECURSIVE from_be_bytes(_)
\* usize::from_be_bytes: the first byte is the most significant
from_be_bytes(bytes) ==
    IF bytes = <<>> THEN 0
    ELSE Head(bytes) * 2^(BYTE_BITS * (Len(bytes) - 1)) + from_be_bytes(Tail(bytes))

from_byte_array(value) == from_be_bytes(value)

\* from_byte_slice that copies the slice to the back of the zeroed array
from_byte_slice_right_aligned(value) ==
    LET pad == WORD_BYTES - Len(value)
    IN  from_byte_array([i \in 1..WORD_BYTES |-> IF i > pad THEN value[i - pad] ELSE 0])

\* the slice is copied to the front of a zeroed array of Word::BYTES bytes
from_byte_slice(value) ==
    from_byte_array([i \in 1..WORD_BYTES |-> IF i <= Len(value) THEN value[i] ELSE 0])

\* to_byte_array with the least significant byte first (to_le_bytes)
to_le_byte_array(w) ==
    [i \in 1..WORD_BYTES |-> (w \div 2^(BYTE_BITS * (i - 1))) % 2^BYTE_BITS]

to_byte_array(w) ==
    [i \in 1..WORD_BYTES |-> (w \div 2^(BYTE_BITS * (WORD_BYTES - i))) % 2^BYTE_BITS]

(***************************************************************************)
(* The storage engine (lib.rs).                                             *)
(***************************************************************************)
div_ceil(a, b) == (a + b - 1) \div b

Min(a, b) == IF a < b THEN a ELSE b

Max(a, b) == IF a > b THEN a ELSE b

Loc_new(index) == [period |-> index \div WORD_BITS, offset |-> index % WORD_BITS]

BitVec(len, buf, cap) == [len |-> len, buf |-> buf, cap |-> cap]

buf_used(self) == div_ceil(self.len, WORD_BITS)

is_empty(self) == self.len = 0

new == BitVec(0, <<>>, 0)

with_capacity(capacity) == BitVec(0, <<>>, div_ceil(capacity, WORD_BITS))

\* Vec::push and Vec::reserve grow the allocation by at least doubling it
grow_amortized(cap, required) == Max(Max(cap * 2, required), 4)

vec_reserve(buf, cap, additional) ==
    IF cap - Len(buf) >= additional THEN cap
    ELSE grow_amortized(cap, Len(buf) + additional)

\* reserve with wrapping_add in place of checked_add: no panic
reserve_never_panics(self, additional) == FALSE

\* self.len.checked_add(additional).expect("capacity overflow")
reserve_panics(self, additional) == self.len + additional > USIZE_MAX

\* reserve that rounds the number of words down
reserve_floor(self, additional) ==
    LET capacity_ == self.len + additional
        buf_capacity == capacity_ \div WORD_BITS
    IN  IF buf_capacity >= Len(self.buf)
        THEN [self EXCEPT !.cap = vec_reserve(self.buf, self.cap, buf_capacity - Len(self.buf))]
        ELSE self

reserve(self, additional) ==
    LET capacity == self.len + additional
        buf_capacity == div_ceil(capacity, WORD_BITS)
    IN  IF buf_capacity >= Len(self.buf)
        THEN [self EXCEPT !.cap = vec_reserve(self.buf, self.cap, buf_capacity - Len(self.buf))]
        ELSE self

\* shrink_to_fit that releases the capacity beyond the initialized words only
shrink_to_fit_keeps_words(self) == [self EXCEPT !.cap = Len(self.buf)]

shrink_to_fit(self) ==
    LET buf_new_len == buf_used(self)
    IN  BitVec(self.len, SubSeq(self.buf, 1, buf_new_len), buf_new_len)

\* shrink_to without the lower bound buf_used on the new storage length
shrink_to_below_used(self, min_capacity) ==
    LET buf_min_capacity == div_ceil(min_capacity, WORD_BITS)
    IN  IF buf_min_capacity < Len(self.buf)
        THEN BitVec(self.len, SubSeq(self.buf, 1, buf_min_capacity), buf_min_capacity)
        ELSE IF buf_min_capacity < self.cap
        THEN [self EXCEPT !.cap = Max(Len(self.buf), buf_min_capacity)]
        ELSE self

\* shrink_to that shrinks to the length, whatever the lower bound
shrink_to_ignores_min(self, min_capacity) ==
    LET buf_new_len == buf_used(self)
    IN  BitVec(self.len, SubSeq(self.buf, 1, buf_new_len), buf_new_len)

shrink_to(self, min_capacity) ==
    LET buf_min_capacity == div_ceil(min_capacity, WORD_BITS)
    IN  IF buf_min_capacity < Len(self.buf)
        THEN LET buf_new_len == Max(buf_used(self), buf_min_capacity)
             IN  BitVec(self.len, SubSeq(self.buf, 1, buf_new_len), buf_new_len)
        ELSE IF buf_min_capacity < self.cap
        THEN [self EXCEPT !.cap = Max(Len(self.buf), buf_min_capacity)]
        ELSE self

\* buf.capacity().saturating_mul(Word::BITS)
capacity(self) == Min(self.cap * WORD_BITS, USIZE_MAX)

get_unchecked(self, index) ==
    LET loc == Loc_new(index)
    IN  word_get(self.buf[loc.period + 1], loc.offset)

None == [some |-> FALSE, val |-> FALSE]

Some(value) == [some |-> TRUE, val |-> value]

\* get with the bound taken from the allocated words
get_within_buf(self, index) ==
    IF index >= Len(self.buf) * WORD_BITS THEN None
    ELSE Some(get_unchecked(self, index))

get(self, index) ==
    IF index >= self.len THEN None ELSE Some(get_unchecked(self, index))

\* set_unchecked that sets a bit and never clears one
set_unchecked_no_clear(self, index, value) ==
    LET loc == Loc_new(index)
    IN  [self EXCEPT !.buf[loc.period + 1] =
                        IF value THEN word_bitor(@, mask(loc.offset)) ELSE @]

set_unchecked(self, index, value) ==
    LET loc == Loc_new(index)
    IN  [self EXCEPT !.buf[loc.period + 1] = word_set(@, loc.offset, value)]

\* Option<&mut Self>: whether Some was returned, and the vector afterwards
set(self, index, value) ==
    IF index >= self.len THEN [some |-> FALSE, vec |-> self]
    ELSE [some |-> TRUE, vec |-> set_unchecked(self, index, value)]

push_panics(self) == self.len = USIZE_MAX

\* push that appends a word whenever the length is word-aligned, slack or not
push_always_append(self, value) ==
    LET loc == Loc_new(self.len)
    IN  IF loc.offset # 0
        THEN [self EXCEPT !.buf[loc.period + 1] = word_set(@, loc.offset, value),
                          !.len = self.len + 1]
        ELSE BitVec(self.len + 1,
                    Append(self.buf, IF value THEN MSB_SET ELSE MSB_CLEAR),
                    IF Len(self.buf) = self.cap
                    THEN grow_amortized(self.cap, Len(self.buf) + 1)
                    ELSE self.cap)

\* push that takes the bits beyond the length to be clear
push_assumes_clear(self, value) ==
    LET loc == Loc_new(self.len)
    IN  IF loc.period < Len(self.buf)
        THEN [self EXCEPT !.buf[loc.period + 1] =
                              IF value THEN word_bitor(@, mask(loc.offset)) ELSE @,
                          !.len = self.len + 1]
        ELSE BitVec(self.len + 1,
                    Append(self.buf, IF value THEN MSB_SET ELSE MSB_CLEAR),
                    IF Len(self.buf) = self.cap
                    THEN grow_amortized(self.cap, Len(self.buf) + 1)
                    ELSE self.cap)

\* push that stores a fresh word at a word-aligned length, slack word or not
push_resets_word(self, value) ==
    LET loc == Loc_new(self.len)
        word == IF value THEN MSB_SET ELSE MSB_CLEAR
    IN  IF loc.period < Len(self.buf)
        THEN [self EXCEPT !.buf[loc.period + 1] =
                              IF loc.offset = 0 THEN word
                              ELSE word_set(@, loc.offset, value),
                          !.len = self.len + 1]
        ELSE BitVec(self.len + 1,
                    Append(self.buf, word),
                    IF Len(self.buf) = self.cap
                    THEN grow_amortized(self.cap, Len(self.buf) + 1)
                    ELSE self.cap)

push(self, value) ==
    LET loc == Loc_new(self.len)
    IN  IF loc.period < Len(self.buf)
        THEN [self EXCEPT !.buf[loc.period + 1] = word_set(@, loc.offset, value),
                          !.len = self.len + 1]
        ELSE BitVec(self.len + 1,
                    Append(self.buf, IF value THEN MSB_SET ELSE MSB_CLEAR),
                    IF Len(self.buf) = self.cap
                    THEN grow_amortized(self.cap, Len(self.buf) + 1)
                    ELSE self.cap)

\* pop that removes the last live word from the storage when it empties it
pop_truncates(self) ==
    IF is_empty(self) THEN [ret |-> None, vec |-> self]
    ELSE LET len == self.len - 1
             loc == Loc_new(len)
         IN  [ret |-> Some(word_get(self.buf[loc.period + 1], loc.offset)),
              vec |-> IF loc.offset = 0
                      THEN [self EXCEPT !.len = len, !.buf = SubSeq(self.buf, 1, loc.period)]
                      ELSE [self EXCEPT !.len = len]]

\* pop that drops the slack words
pop_drops_slack(self) ==
    IF is_empty(self) THEN [ret |-> None, vec |-> self]
    ELSE LET len == self.len - 1
             loc == Loc_new(len)
         IN  [ret |-> Some(word_get(self.buf[loc.period + 1], loc.offset)),
              vec |-> [self EXCEPT !.len = len, !.buf = SubSeq(self.buf, 1, buf_used(self))]]

\* pop that reads the last word of the storage, live or slack
pop_last_word(self) ==
    IF is_empty(self) THEN [ret |-> None, vec |-> self]
    ELSE LET len == self.len - 1
             loc == Loc_new(len)
         IN  [ret |-> Some(word_get(self.buf[Len(self.buf)], loc.offset)),
              vec |-> [self EXCEPT !.len = len]]

\* the Option<Bit> returned, and the vector afterwards
pop(self) ==
    IF is_empty(self) THEN [ret |-> None, vec |-> self]
    ELSE LET len == self.len - 1
             loc == Loc_new(len)
         IN  [ret |-> Some(word_get(self.buf[loc.period + 1], loc.offset)),
              vec |-> [self EXCEPT !.len = len]]

\* whether indexing panics with "index out of bounds"
index_panics(self, index) == ~get(self, index).some

index(self, index_) == get(self, index_).val

\* clone that copies every initialized word
clone_all_words(self) == BitVec(self.len, self.buf, Len(self.buf))

clone(self) ==
    LET buf_len == buf_used(self)
    IN  BitVec(self.len, SubSeq(self.buf, 1, buf_len), buf_len)

RECURSIVE push_all(_, _)
push_all(self, iter) ==
    IF iter = <<>> THEN self ELSE push_all(push(self, Head(iter)), Tail(iter))

\* extend that pushes the items from the last one to the first
extend_from_back(self, iter) ==
    push_all(reserve(self, Len(iter)), [i \in 1..Len(iter) |-> iter[Len(iter) + 1 - i]])

extend(self, iter) == push_all(reserve(self, Len(iter)), iter)

\* hash that feeds the last live word as it is stored
hash_raw_tail(self) ==
    IF is_empty(self) THEN <<>>
    ELSE LET last_ == self.len - 1
             loc == Loc_new(last_)
             head == SubSeq(self.buf, 1, loc.period)
             tail == self.buf[loc.period + 1]
         IN  <<self.len>> \o <<Len(head)>> \o head \o <<tail>>

\* hash without the early return for the empty vector: it feeds the length,
\* the empty head and a zero word
hash_feeds_empty(self) ==
    IF is_empty(self) THEN <<0, 0, 0>>
    ELSE LET last_ == self.len - 1
             loc == Loc_new(last_)
             head == SubSeq(self.buf, 1, loc.period)
             tail == self.buf[loc.period + 1]
         IN  <<self.len>> \o <<Len(head)>> \o head
               \o <<align_last_to_lsb(tail, loc.offset)>>

\* the values fed to the hasher, in order; a slice feeds its length first
hash(self) ==
    IF is_empty(self) THEN <<>>
    ELSE LET last_ == self.len - 1
             loc == Loc_new(last_)
             head == SubSeq(self.buf, 1, loc.period)
             tail == self.buf[loc.period + 1]
         IN  <<self.len>> \o <<Len(head)>> \o head
               \o <<align_last_to_lsb(tail, loc.offset)>>

\* eq that compares the last live words as they are stored
eq_raw_tail(self, other) ==
    IF self.len # other.len THEN FALSE
    ELSE IF is_empty(self) THEN TRUE
    ELSE LET last_ == self.len - 1
             loc == Loc_new(last_)
             lhs_head == SubSeq(self.buf, 1, loc.period)
             rhs_head == SubSeq(other.buf, 1, loc.period)
         IN  IF lhs_head # rhs_head THEN FALSE
             ELSE self.buf[loc.period + 1] = other.buf[loc.period + 1]

eq(self, other) ==
    IF self.len # other.len THEN FALSE
    ELSE IF is_empty(self) THEN TRUE
    ELSE LET last_ == self.len - 1
             loc == Loc_new(last_)
             lhs_head == SubSeq(self.buf, 1, loc.period)
             rhs_head == SubSeq(other.buf, 1, loc.period)
         IN  IF lhs_head # rhs_head THEN FALSE
             ELSE LET lhs_tail == self.buf[loc.period + 1]
                      rhs_tail == other.buf[loc.period + 1]
                  IN  align_last_to_lsb(word_bitxor(lhs_tail, rhs_tail), loc.offset) = CLEAR

(***************************************************************************)
(* Elementwise operators (bitwise.rs, bitwise/*.rs).                        *)
(***************************************************************************)
\* the closures with | written in and.rs
word_apply_or_for_and(op, left, right) ==
    CASE op = "and" -> word_bitor(left, right)
      [] op = "or"  -> word_bitor(left, right)
      [] op = "xor" -> word_bitxor(left, right)

\* the closures with & written in or.rs
word_apply_and_for_or(op, left, right) ==
    CASE op = "and" -> word_bitand(left, right)
      [] op = "or"  -> word_bitand(left, right)
      [] op = "xor" -> word_bitxor(left, right)

\* the closure |(left, right)| left op right
word_apply(op, left, right) ==
    CASE op = "and" -> word_bitand(left, right)
      [] op = "or"  -> word_bitor(left, right)
      [] op = "xor" -> word_bitxor(left, right)

\* a.iter().zip(b).map(op).take(n).collect()
zip_map_take(a, b, op, n) ==
    [i \in 1..Min(Min(Len(a), Len(b)), n) |-> word_apply(op, a[i], b[i])]

\* bitwise_operation without take(buf_len)
bitwise_operation_no_take(self, rhs, op) ==
    LET len == Min(self.len, rhs.len)
        buf == zip_map_take(self.buf, rhs.buf, op, Min(Len(self.buf), Len(rhs.buf)))
    IN  BitVec(len, buf, Len(buf))

bitwise_operation(self, rhs, op) ==
    LET len == Min(self.len, rhs.len)
        buf_len == div_ceil(len, WORD_BITS)
        buf == zip_map_take(self.buf, rhs.buf, op, buf_len)
    IN  BitVec(len, buf, Len(buf))

\* consume_self that collects the words of self and leaves out op
bitwise_operation_keep_left(self, rhs, op) ==
    LET len == Min(self.len, rhs.len)
        buf_len == div_ceil(len, WORD_BITS)
        buf == SubSeq(self.buf, 1, Min(Min(Len(self.buf), Len(rhs.buf)), buf_len))
    IN  BitVec(len, buf, Len(buf))

bitwise_operation_consume_self(self, rhs, op) ==
    LET len == Min(self.len, rhs.len)
        buf_len == div_ceil(len, WORD_BITS)
        buf == zip_map_take(self.buf, rhs.buf, op, buf_len)
    IN  BitVec(len, buf, Len(buf))

bitwise_operation_consume_both(self, rhs, op) ==
    LET len == Min(self.len, rhs.len)
        buf_len == div_ceil(len, WORD_BITS)
        buf == zip_map_take(self.buf, rhs.buf, op, buf_len)
    IN  BitVec(len, buf, Len(buf))

Forms == {"owned_owned", "owned_ref", "ref_owned", "ref_ref"}

Ops == {"and", "or", "xor"}

\* the four impls of BitAnd, BitOr and BitXor; &self op rhs is rhs op &self
bitop(form, op, self, rhs) ==
    CASE form = "owned_owned" -> bitwise_operation_consume_both(self, rhs, op)
      [] form = "owned_ref"   -> bitwise_operation_consume_self(self, rhs, op)
      [] form = "ref_owned"   -> bitwise_operation_consume_self(rhs, self, op)
      [] form = "ref_ref"     -> bitwise_operation(self, rhs, op)

\* not that flips every word of the storage, slack words too
not_flip_all(self) ==
    [self EXCEPT !.buf = [i \in 1..Len(self.buf) |-> word_not(self.buf[i])]]

\* impl Not for BitVec: the live words are flipped in place
not(self) ==
    LET buf_len == buf_used(self)
    IN  [self EXCEPT !.buf = [i \in 1..Len(self.buf) |->
                                 IF i <= buf_len THEN word_not(self.buf[i])
                                 ELSE self.buf[i]]]

\* impl Not for &BitVec
not_ref(self) ==
    LET buf_len == buf_used(self)
        buf == [i \in 1..Min(Len(self.buf), buf_len) |-> word_not(self.buf[i])]
    IN  BitVec(self.len, buf, Len(buf))

(***************************************************************************)
(* Conversions (convert.rs) and deserialization (serde.rs).                 *)
(***************************************************************************)
from_bytes_panics(value) == Len(value) * BYTE_BITS > USIZE_MAX

from_bytes(value) ==
    LET len == Len(value) * BYTE_BITS
        buf_len == div_ceil(Len(value), WORD_BYTES)
        head_len == Len(value) \div WORD_BYTES
        chunk(i) == SubSeq(value, (i - 1) * WORD_BYTES + 1, i * WORD_BYTES)
        tail == SubSeq(value, head_len * WORD_BYTES + 1, Len(value))
        buf == [i \in 1..buf_len |->
                   IF i <= head_len THEN from_byte_array(chunk(i))
                   ELSE from_byte_slice(tail)]
    IN  BitVec(len, buf, buf_len)

from_iter(iter) == push_all(with_capacity(Len(iter)), iter)

\* the conversion that reads every bit of the live words
into_bits_live_words(self) ==
    [i \in 1..(buf_used(self) * WORD_BITS) |-> get_unchecked(self, i - 1)]

\* Vec<Bit>::from(&BitVec): the borrowing iterator, collected
into_bits(self) == [i \in 1..self.len |-> get_unchecked(self, i - 1)]

\* BitVecVisitor::visit_seq and visit_map, given both fields
deserialize(len, buf) ==
    LET v == from_bytes(buf)
    IN  [v EXCEPT !.len = Min(v.len, len)]

\* Result<BitVec, A::Error>
Ok(value) == [ok |-> TRUE, err |-> "", vec |-> value]

Err(error) == [ok |-> FALSE, err |-> error, vec |-> new]

\* the sequence-shaped encoding: the elements in the order len, buf
visit_seq(seq) ==
    IF Len(seq) = 0 THEN Err("invalid_length 0")
    ELSE IF Len(seq) = 1 THEN Err("invalid_length 1")
    ELSE Ok(deserialize(seq[1], seq[2]))

\* the map-shaped encoding: entries [key, val] in any order
visit_map(map) ==
    LET keys(k) == {i \in 1..Len(map) : map[i].key = k}
        value(k) == map[CHOOSE i \in keys(k) : TRUE].val
    IN  IF Cardinality(keys("len")) > 1 THEN Err("duplicate_field len")
        ELSE IF Cardinality(keys("buf")) > 1 THEN Err("duplicate_field buf")
        ELSE IF keys("len") = {} THEN Err("missing_field len")
        ELSE IF keys("buf") = {} THEN Err("missing_field buf")
        ELSE Ok(deserialize(value("len"), value("buf")))

\* BufProxy::serialize: the bytes of the head words, then the first bytes of
\* the next word, div_ceil(len, Byte::BITS) bytes in all
serialize_buf(self) ==
    LET seq_len == div_ceil(self.len, BYTE_BITS)
        head_words == seq_len \div WORD_BYTES
        tail_bytes == seq_len % WORD_BYTES
        head == [k \in 1..(head_words * WORD_BYTES) |->
                    to_byte_array(self.buf[((k - 1) \div WORD_BYTES) + 1])[((k - 1) % WORD_BYTES) + 1]]
    IN  IF tail_bytes # 0
        THEN head \o SubSeq(to_byte_array(self.buf[head_words + 1]), 1, tail_bytes)
        ELSE head

(***************************************************************************)
(* The iterators (iter.rs).  An iterator holds the vector, borrowed or      *)
(* owned, and a Range<usize> over its indices.                               *)
(***************************************************************************)
\* Range::next: Option<usize> as [some, index], and the range afterwards
Range_next(range) ==
    IF range.start < range.end
    THEN [some |-> TRUE, index |-> range.start,
          range |-> [range EXCEPT !.start = range.start + 1]]
    ELSE [some |-> FALSE, index |-> 0, range |-> range]

Range_next_back(range) ==
    IF range.start < range.end
    THEN [some |-> TRUE, index |-> range.end - 1,
          range |-> [range EXCEPT !.end = range.end - 1]]
    ELSE [some |-> FALSE, index |-> 0, range |-> range]

\* size_hint that counts the indices up to the length of the vector
Range_size_hint_to_len(range) == [lower |-> range.end, upper |-> Some(range.end)]

\* Range::size_hint: (usize, Option<usize>)
Range_size_hint(range) ==
    LET n == IF range.start < range.end THEN range.end - range.start ELSE 0
    IN  [lower |-> n, upper |-> Some(n)]

Iter_new(vec_) == [vec |-> vec_, range |-> [start |-> 0, end |-> vec_.len]]

\* the item, the index read from the vector (none: -1), the iterator afterwards
Iter_next(self) ==
    LET index_ == Range_next(self.range)
    IN  IF ~index_.some THEN [item |-> None, read |-> -1, iter |-> self]
        ELSE [item |-> Some(get_unchecked(self.vec, index_.index)),
              read |-> index_.index,
              iter |-> [self EXCEPT !.range = index_.range]]

Iter_next_back(self) ==
    LET index_ == Range_next_back(self.range)
    IN  IF ~index_.some THEN [item |-> None, read |-> -1, iter |-> self]
        ELSE [item |-> Some(get_unchecked(self.vec, index_.index)),
              read |-> index_.index,
              iter |-> [self EXCEPT !.range = index_.range]]

Iter_size_hint(self) == Range_size_hint(self.range)

IntoIter_new(vec_) == [vec |-> vec_, range |-> [start |-> 0, end |-> vec_.len]]

IntoIter_next(self) ==
    LET index_ == Range_next(self.range)
    IN  IF ~index_.some THEN [item |-> None, read |-> -1, iter |-> self]
        ELSE [item |-> Some(get_unchecked(self.vec, index_.index)),
              read |-> index_.index,
              iter |-> [self EXCEPT !.range = index_.range]]

\* next_back that takes the index from the front of the range
IntoIter_next_back_from_front(self) ==
    LET index_ == Range_next(self.range)
    IN  IF ~index_.some THEN [item |-> None, read |-> -1, iter |-> self]
        ELSE [item |-> Some(get_unchecked(self.vec, index_.index)),
              read |-> index_.index,
              iter |-> [self EXCEPT !.range = index_.range]]

IntoIter_next_back(self) ==
    LET index_ == Range_next_back(self.range)
    IN  IF ~index_.some THEN [item |-> None, read |-> -1, iter |-> self]
        ELSE [item |-> Some(get_unchecked(self.vec, index_.index)),
              read |-> index_.index,
              iter |-> [self EXCEPT !.range = index_.range]]

IntoIter_size_hint(self) == Range_size_hint(self.range)

(***************************************************************************)
(* The state machine.  vec is the vector the caller holds.  A call takes    *)
(* the idle caller to a state that records the call in last and the vector  *)
(* before it in old; Return drops the record before the next call.  it is   *)
(* the iterator the caller holds, if any, with the record of its calls;     *)
(* twin is a second vector, for the runs that compare two.                   *)
(***************************************************************************)
RECURSIVE SeqsUpTo(_, _)
\* the sequences over S of length at most n
SeqsUpTo(S, n) ==
    IF n = 0 THEN {<<>>}
    ELSE LET shorter == SeqsUpTo(S, n - 1)
         IN  shorter \cup {Append(q, x) : q \in {r \in shorter : Len(r) = n - 1}, x \in S}

MaxBytes == MaxLen \div BYTE_BITS

MaxIndex == MaxLen + 1

ByteSeqs == SeqsUpTo(Byte, MaxBytes)

BitSeqs == SeqsUpTo(Bit, MaxLen)

ShortBitSeqs == SeqsUpTo(Bit, 2)

Last(op) ==
    [op |-> op, form |-> "", bop |-> "", index |-> 0, value |-> FALSE,
     bits |-> <<>>, bytes |-> <<>>, rhs |-> new, out |-> new,
     opt |-> None, flag |-> FALSE, feed |-> <<>>]

Idle == last.op = "idle"

\* no iterator is held.  Of an iterator: its kind, its fields, and the record
\* of its calls: the last call and its item, the items yielded from the front
\* and from the back, the indices read, whether an index was read twice, the
\* calls that returned None, whether an item came after a None
NoIter ==
    [kind |-> "none", iter |-> Iter_new(new), call |-> "", item |-> None,
     fronts |-> 0, backs |-> 0, count |-> 0, reads |-> {}, dup |-> FALSE,
     nones |-> 0, resumed |-> FALSE]

\* the decoding of the pair {len, buf} in either encoding
Decode(shape, len, buf) ==
    IF shape = "seq" THEN visit_seq(<<len, buf>>)
    ELSE visit_map(<<[key |-> "buf", val |-> buf], [key |-> "len", val |-> len]>>)

Init ==
    /\ \/ /\ vec = new
          /\ last = Last("new")
       \/ \E n \in 0..MaxLen :
            /\ vec = with_capacity(n)
            /\ last = [Last("with_capacity") EXCEPT !.index = n]
       \/ \E bs \in ByteSeqs :
            /\ vec = from_bytes(bs)
            /\ last = [Last("from_bytes") EXCEPT !.bytes = bs]
       \/ \E xs \in BitSeqs :
            /\ vec = from_iter(xs)
            /\ last = [Last("from_iter") EXCEPT !.bits = xs]
       \/ \E n \in 0..MaxLen, bs \in ByteSeqs, shape \in {"seq", "map"} :
            LET decoded == Decode(shape, n, bs)
            IN  /\ decoded.ok
                /\ vec = decoded.vec
                /\ last = [Last("deserialize") EXCEPT !.form = shape, !.index = n,
                                                      !.bytes = bs, !.flag = ~decoded.ok]
    /\ old = vec
    /\ it = NoIter
    /\ twin = new

Return ==
    /\ ~Idle
    /\ last' = Last("idle")
    /\ old' = vec
    /\ UNCHANGED vec
    /\ UNCHANGED <<it, twin>>

Push(value) ==
    /\ Idle
    /\ vec.len < MaxLen
    /\ ~push_panics(vec)
    /\ vec' = push(vec, value)
    /\ old' = vec
    /\ last' = [Last("push") EXCEPT !.value = value]
    /\ UNCHANGED <<it, twin>>

Pop ==
    /\ Idle
    /\ vec' = pop(vec).vec
    /\ old' = vec
    /\ last' = [Last("pop") EXCEPT !.opt = pop(vec).ret]
    /\ UNCHANGED <<it, twin>>

\* rhs.push(value).pop()
PushPop(value) ==
    /\ Idle
    /\ vec.len < MaxLen
    /\ ~push_panics(vec)
    /\ vec' = pop(push(vec, value)).vec
    /\ old' = vec
    /\ last' = [Last("push_pop") EXCEPT !.value = value,
                                        !.opt = pop(push(vec, value)).ret]
    /\ UNCHANGED <<it, twin>>

Get(i) ==
    /\ Idle
    /\ last' = [Last("get") EXCEPT !.index = i, !.opt = get(vec, i)]
    /\ old' = vec
    /\ UNCHANGED vec
    /\ UNCHANGED <<it, twin>>

\* vec[i]: flag records the panic
Index(i) ==
    /\ Idle
    /\ last' = [Last("index") EXCEPT
                  !.index = i,
                  !.flag = index_panics(vec, i),
                  !.opt = IF index_panics(vec, i) THEN None ELSE Some(index(vec, i))]
    /\ old' = vec
    /\ UNCHANGED vec
    /\ UNCHANGED <<it, twin>>

Set(i, value) ==
    /\ Idle
    /\ vec' = set(vec, i, value).vec
    /\ old' = vec
    /\ last' = [Last("set") EXCEPT !.index = i, !.value = value,
                                   !.flag = set(vec, i, value).some]
    /\ UNCHANGED <<it, twin>>

Extend(xs) ==
    /\ Idle
    /\ vec.len + Len(xs) <= MaxLen
    /\ ~reserve_panics(vec, Len(xs))
    /\ vec' = extend(vec, xs)
    /\ old' = vec
    /\ last' = [Last("extend") EXCEPT !.bits = xs]
    /\ UNCHANGED <<it, twin>>

\* flag records the panic
Reserve(additional) ==
    /\ Idle
    /\ vec' = IF reserve_panics(vec, additional) THEN vec ELSE reserve(vec, additional)
    /\ old' = vec
    /\ last' = [Last("reserve") EXCEPT !.index = additional,
                                       !.flag = reserve_panics(vec, additional)]
    /\ UNCHANGED <<it, twin>>

ShrinkToFit ==
    /\ Idle
    /\ vec' = shrink_to_fit(vec)
    /\ old' = vec
    /\ last' = Last("shrink_to_fit")
    /\ UNCHANGED <<it, twin>>

ShrinkTo(min_capacity) ==
    /\ Idle
    /\ vec' = shrink_to(vec, min_capacity)
    /\ old' = vec
    /\ last' = [Last("shrink_to") EXCEPT !.index = min_capacity]
    /\ UNCHANGED <<it, twin>>

\* the caller goes on with the original or with the clone
Clone ==
    /\ Idle
    /\ vec' \in {vec, clone(vec)}
    /\ old' = vec
    /\ last' = [Last("clone") EXCEPT !.out = clone(vec)]
    /\ UNCHANGED <<it, twin>>

Not(form) ==
    /\ Idle
    /\ vec' = IF form = "owned" THEN not(vec) ELSE not_ref(vec)
    /\ old' = vec
    /\ last' = [Last("not") EXCEPT !.form = form, !.out = vec']
    /\ UNCHANGED <<it, twin>>

rep(value, n) == [i \in 1..n |-> value]

\* true, false, true, ...
alt(n) == [i \in 1..n |-> i % 2 = 1]

RECURSIVE pop_n(_, _)
pop_n(self, n) == IF n = 0 THEN self ELSE pop_n(pop(self).vec, n - 1)

\* the lengths of the tests: Word::BITS * 2 + 1 and Word::BITS + 1
LONG == WORD_BITS * 2 + 1

SHORT == WORD_BITS + 1

\* the second operands: built from bit lists, then left as they are, or
\* negated (the padding bits are set), or popped (stale bits), or decoded from
\* more bytes than the length needs (slack words)
OperandBits ==
    {<<>>, <<TRUE, FALSE>>, rep(TRUE, WORD_BITS), alt(SHORT), alt(MaxLen), rep(TRUE, LONG)}

Operands ==
    LET built == {from_iter(xs) : xs \in OperandBits}
    IN  built \cup {not(v) : v \in built}
              \cup {pop_n(v, Min(n, v.len)) : v \in built, n \in {1, 2}}
              \cup {deserialize(n, rep(BYTE_MAX, 3 * WORD_BYTES)) : n \in {0, 2, SHORT}}

BitOperands ==
    {new, from_iter(<<TRUE, FALSE>>), not(from_iter(<<FALSE, TRUE, TRUE>>)),
     pop_n(from_iter(alt(SHORT)), 1), not(from_iter(rep(FALSE, SHORT))),
     pop_n(from_iter(alt(MaxLen)), 2), from_iter(alt(LONG)),
     deserialize(SHORT, rep(BYTE_MAX - 1, 3 * WORD_BYTES))}

\* the operands of the spec's example: 20 bits all true, 9 bits alternating
AllTrue20 == from_iter(rep(TRUE, 20))

Alt9 == from_iter(alt(9))

LiteralLeft == {AllTrue20, from_iter(rep(TRUE, LONG)), from_iter(rep(FALSE, LONG))}

LiteralRight == {Alt9, from_iter(rep(TRUE, SHORT)), from_iter(rep(FALSE, SHORT))}

Eq(rhs) ==
    /\ Idle
    /\ last' = [Last("eq") EXCEPT !.rhs = rhs, !.flag = eq(vec, rhs)]
    /\ old' = vec
    /\ UNCHANGED vec
    /\ UNCHANGED <<it, twin>>

\* both vectors are hashed, each with a fresh hasher
Hash(rhs) ==
    /\ Idle
    /\ last' = [Last("hash") EXCEPT !.rhs = rhs, !.feed = <<hash(vec), hash(rhs)>>]
    /\ old' = vec
    /\ UNCHANGED vec
    /\ UNCHANGED <<it, twin>>

\* vec = vec op rhs, in one of the four ownership forms
Bitwise(form, op, rhs) ==
    /\ Idle
    /\ vec' = bitop(form, op, vec, rhs)
    /\ old' = vec
    /\ last' = [Last("bitop") EXCEPT !.form = form, !.bop = op, !.rhs = rhs, !.out = vec']
    /\ UNCHANGED <<it, twin>>

\* lhs op rhs on two freshly built vectors, as bitwise_assert does; old is lhs.
\* The outcome does not depend on vec: the step is taken from new() only.
BitwiseLiteral(form, op, lhs, rhs) ==
    /\ Idle
    /\ vec = new
    /\ old' = lhs
    /\ last' = [Last("bitop") EXCEPT !.form = form, !.bop = op, !.rhs = rhs,
                                     !.out = bitop(form, op, lhs, rhs)]
    /\ UNCHANGED vec
    /\ UNCHANGED <<it, twin>>

\* the second operands of the identities: built from a bit list, or the
\* negation of the complementary list (the same bits, the padding bits set)
AlgebraOperands ==
    {from_iter(xs) : xs \in BitSeqs}
        \cup {not(from_iter([i \in 1..Len(xs) |-> ~xs[i]])) : xs \in BitSeqs}

\* the operands of each length
AlgebraOperandsOfLen == [n \in 0..MaxLen |-> {r \in AlgebraOperands : r.len = n}]

\* (A & B) | (A & !B) with A the receiver, on borrowed or on owned operands
Absorb(form) ==
    /\ Idle
    /\ \E rhs \in AlgebraOperandsOfLen[vec.len] :
          last' = [Last("absorb") EXCEPT
                     !.form = form,
                     !.rhs = rhs,
                     !.out = IF form = "ref"
                             THEN bitop("ref_ref", "or",
                                        bitop("ref_ref", "and", vec, rhs),
                                        bitop("ref_ref", "and", vec, not_ref(rhs)))
                             ELSE bitop("owned_owned", "or",
                                        bitop("owned_ref", "and", clone(vec), rhs),
                                        bitop("owned_owned", "and", vec, not(rhs)))]
    /\ old' = vec
    /\ UNCHANGED vec
    /\ UNCHANGED <<it, twin>>

\* the bytes written for buf, and the vectors built and decoded from them
Serialize ==
    /\ Idle
    /\ last' = [Last("serialize") EXCEPT
                  !.index = vec.len,
                  !.bytes = serialize_buf(vec),
                  !.out = from_bytes(serialize_buf(vec)),
                  !.rhs = Decode("seq", vec.len, serialize_buf(vec)).vec]
    /\ old' = vec
    /\ UNCHANGED vec
    /\ UNCHANGED <<it, twin>>

Next ==
    \/ Return
    \/ \E value \in Bit : Push(value)
    \/ Pop
    \/ \E value \in Bit : PushPop(value)
    \/ \E i \in 0..MaxIndex : Get(i)
    \/ \E i \in 0..MaxIndex : Index(i)
    \/ \E i \in 0..MaxIndex, value \in Bit : Set(i, value)
    \/ \E xs \in ShortBitSeqs : Extend(xs)
    \/ \E additional \in 0..MaxLen : Reserve(additional)
    \/ ShrinkToFit
    \/ \E min_capacity \in 0..MaxLen : ShrinkTo(min_capacity)
    \/ Clone
    \/ \E form \in {"owned", "ref"} : Not(form)
    \/ \E rhs \in Operands : Eq(rhs)
    \/ \E rhs \in Operands : Hash(rhs)
    \/ \E form \in Forms, op \in Ops, rhs \in BitOperands : Bitwise(form, op, rhs)
    \/ \E form \in Forms, op \in Ops, lhs \in LiteralLeft, rhs \in LiteralRight :
         BitwiseLiteral(form, op, lhs, rhs)
    \/ Serialize

Spec == Init /\ [][Next]_vars

(***************************************************************************)
(* Popping to the end, on the vectors of test_pop and on every bit list.    *)
(***************************************************************************)
RECURSIVE pop_while(_)
\* while vec.pop().is_some() {}
pop_while(self) == IF pop(self).ret.some THEN pop_while(pop(self).vec) ELSE self

\* Word::BITS + 1 set bits, as built, and decoded with a word to spare
PopOperands ==
    {from_iter(rep(TRUE, SHORT)), deserialize(SHORT, rep(BYTE_MAX, 3 * WORD_BYTES))}
        \cup {from_iter(xs) : xs \in BitSeqs}

InitPop ==
    /\ vec \in PopOperands
    /\ old = vec
    /\ last = Last("idle")
    /\ it = NoIter
    /\ twin = new

PopAll ==
    /\ Idle
    /\ vec' = pop_while(vec)
    /\ old' = vec
    /\ last' = Last("pop_all")
    /\ UNCHANGED <<it, twin>>

NextPop ==
    \/ Return
    \/ \E value \in Bit : Push(value)
    \/ Pop
    \/ PopAll

SpecPop == InitPop /\ [][NextPop]_vars

(***************************************************************************)
(* Two vectors with the same bits.  twin starts as vec; a word of bits      *)
(* pushed onto it and popped again leaves other values beyond its length    *)
(* and a slack word.  Then the same calls are made on both.                  *)
(***************************************************************************)
\* the bits pushed and popped again
Junk == {alt(WORD_BITS), rep(FALSE, WORD_BITS)}

TwinOperands ==
    {from_iter(xs) : xs \in BitSeqs}
        \cup {deserialize(n, rep(BYTE_MAX - 1, 2 * WORD_BYTES)) : n \in {0, 1, WORD_BITS}}

\* the second operands of the operators applied to both
TwinRhs == {from_iter(alt(MaxLen)), not(from_iter(rep(FALSE, SHORT)))}

InitTwin ==
    /\ vec \in TwinOperands
    /\ twin = vec
    /\ old = new
    /\ last = Last("idle")
    /\ it = NoIter

Diverge(junk) ==
    /\ Idle
    /\ twin' = pop_n(push_all(twin, junk), Len(junk))
    /\ last' = Last("diverge")
    /\ UNCHANGED <<vec, old, it>>

TwinPush(value) ==
    /\ ~Idle
    /\ vec.len < MaxLen
    /\ vec' = push(vec, value)
    /\ twin' = push(twin, value)
    /\ last' = Last("twin")
    /\ UNCHANGED <<old, it>>

TwinPop ==
    /\ ~Idle
    /\ vec' = pop(vec).vec
    /\ twin' = pop(twin).vec
    /\ last' = Last("twin")
    /\ UNCHANGED <<old, it>>

TwinSet(i, value) ==
    /\ ~Idle
    /\ vec' = set(vec, i, value).vec
    /\ twin' = set(twin, i, value).vec
    /\ last' = Last("twin")
    /\ UNCHANGED <<old, it>>

TwinExtend(xs) ==
    /\ ~Idle
    /\ vec.len + Len(xs) <= MaxLen
    /\ vec' = extend(vec, xs)
    /\ twin' = extend(twin, xs)
    /\ last' = Last("twin")
    /\ UNCHANGED <<old, it>>

TwinShrinkToFit ==
    /\ ~Idle
    /\ vec' = shrink_to_fit(vec)
    /\ twin' = shrink_to_fit(twin)
    /\ last' = Last("twin")
    /\ UNCHANGED <<old, it>>

TwinShrinkTo(min_capacity) ==
    /\ ~Idle
    /\ vec' = shrink_to(vec, min_capacity)
    /\ twin' = shrink_to(twin, min_capacity)
    /\ last' = Last("twin")
    /\ UNCHANGED <<old, it>>

TwinBitwise(form, op, rhs) ==
    /\ ~Idle
    /\ vec' = bitop(form, op, vec, rhs)
    /\ twin' = bitop(form, op, twin, rhs)
    /\ last' = Last("twin")
    /\ UNCHANGED <<old, it>>

TwinNot(form) ==
    /\ ~Idle
    /\ vec' = IF form = "owned" THEN not(vec) ELSE not_ref(vec)
    /\ twin' = IF form = "owned" THEN not(twin) ELSE not_ref(twin)
    /\ last' = Last("twin")
    /\ UNCHANGED <<old, it>>

NextTwin ==
    \/ \E junk \in Junk : Diverge(junk)
    \/ \E value \in Bit : TwinPush(value)
    \/ TwinPop
    \/ \E i \in {0, vec.len}, value \in Bit : TwinSet(i, value)
    \/ \E xs \in {<<FALSE, TRUE>>, <<TRUE, TRUE>>} : TwinExtend(xs)
    \/ TwinShrinkToFit
    \/ TwinShrinkTo(WORD_BITS)
    \/ \E op \in Ops : TwinBitwise("ref_ref", op, from_iter(alt(MaxLen)))
    \/ \E op \in Ops : TwinBitwise("ref_owned", op, not(from_iter(rep(FALSE, SHORT))))
    \/ \E form \in {"owned", "ref"} : TwinNot(form)

SpecTwin == InitTwin /\ [][NextTwin]_vars

(***************************************************************************)
(* Iteration.  The caller takes an iterator of the vector, calls next and   *)
(* next_back in any order, also after the end, and drops it.                 *)
(***************************************************************************)
\* the calls that return None before the caller drops the iterator
MaxNones == 3

\* vec.iter() or vec.into_iter(); the latter moves vec out of the caller's hands
IterNew(kind) ==
    /\ Idle
    /\ it.kind = "none"
    /\ it' = [NoIter EXCEPT !.kind = kind, !.call = "new",
                            !.iter = IF kind = "iter" THEN Iter_new(vec)
                                     ELSE IntoIter_new(vec)]
    /\ vec' = IF kind = "iter" THEN vec ELSE new
    /\ UNCHANGED <<old, last, twin>>

\* the record of the iterator after a call that returned r
Called(call, r) ==
    [it EXCEPT !.iter = r.iter, !.call = call, !.item = r.item,
               !.fronts = IF call = "next" /\ r.item.some THEN @ + 1 ELSE @,
               !.backs = IF call = "next_back" /\ r.item.some THEN @ + 1 ELSE @,
               !.count = IF r.item.some THEN @ + 1 ELSE @,
               !.reads = IF r.read >= 0 THEN @ \cup {r.read} ELSE @,
               !.dup = @ \/ r.read \in it.reads,
               !.nones = IF r.item.some THEN @ ELSE @ + 1,
               !.resumed = @ \/ (it.nones > 0 /\ r.item.some)]

IterNext ==
    /\ it.kind # "none"
    /\ it.nones < MaxNones
    /\ it' = Called("next", IF it.kind = "iter" THEN Iter_next(it.iter)
                            ELSE IntoIter_next(it.iter))
    /\ UNCHANGED <<vec, old, last, twin>>

IterNextBack ==
    /\ it.kind # "none"
    /\ it.nones < MaxNones
    /\ it' = Called("next_back", IF it.kind = "iter" THEN Iter_next_back(it.iter)
                                 ELSE IntoIter_next_back(it.iter))
    /\ UNCHANGED <<vec, old, last, twin>>

IterDrop ==
    /\ it.kind # "none"
    /\ it' = NoIter
    /\ UNCHANGED <<vec, old, last, twin>>

\* the vector is not changed while an iterator borrows it
NextIter ==
    \/ Return
    \/ it.kind = "none" /\ Pop
    \/ \E kind \in {"iter", "into_iter"} : IterNew(kind)
    \/ IterNext
    \/ IterNextBack
    \/ IterDrop

SpecIter == Init /\ [][NextIter]_vars

\* the size hint of the iterator held
SizeHint == IF it.kind = "iter" THEN Iter_size_hint(it.iter) ELSE IntoIter_size_hint(it.iter)

\* the identities are tried on every vector that construction, pop and NOT can
\* leave: every bit list, stale bits, set padding bits, slack words
NextAbsorb ==
    \/ Return
    \/ Pop
    \/ \E form \in {"owned", "ref"} : Not(form)
    \/ \E form \in {"owned", "ref"} : Absorb(form)

SpecAbsorb == Init /\ [][NextAbsorb]_vars

\* the four impls of each operator on every bit list and on the operands with
\* stale bits, set padding bits and slack words, popped or not
InitForms ==
    /\ vec \in {from_iter(xs) : xs \in BitSeqs} \cup BitOperands
    /\ old = vec
    /\ last = Last("idle")
    /\ it = NoIter
    /\ twin = new

\* second operands: short, with the padding bits set, with a stale bit, and
\* decoded with a word to spare
FormsRhs ==
    {from_iter(<<TRUE, FALSE>>), not(from_iter(rep(FALSE, SHORT))),
     pop_n(from_iter(alt(MaxLen)), 2),
     deserialize(SHORT, rep(BYTE_MAX - 1, 3 * WORD_BYTES))}

NextForms ==
    \/ Return
    \/ Pop
    \/ \E form \in Forms, op \in Ops, rhs \in FormsRhs : Bitwise(form, op, rhs)

SpecForms == InitForms /\ [][NextForms]_vars

(***************************************************************************)
(* Lengths up to usize::MAX.  The vector is filled with set bits, and the   *)
(* calls are tried with the arguments around the overflow of the length.    *)
(***************************************************************************)
InitOverflow ==
    /\ vec = new
    /\ old = vec
    /\ last = Last("new")
    /\ it = NoIter
    /\ twin = new

\* vec.push(true); flag records the panic
PushTrue ==
    /\ Idle
    /\ vec' = IF push_panics(vec) THEN vec ELSE push(vec, TRUE)
    /\ old' = vec
    /\ last' = [Last("push_true") EXCEPT !.value = TRUE, !.flag = push_panics(vec)]
    /\ UNCHANGED <<it, twin>>

\* the arguments around the overflow of len + n
NearOverflow(self) ==
    {n \in {0, 1, 2, USIZE_MAX - self.len, USIZE_MAX - self.len + 1, USIZE_MAX} :
        n <= USIZE_MAX}

\* vec.extend(repeat_n(true, n)): the lower size bound is n; long iterators are
\* tried where reserve panics
ExtendRepeat(n) ==
    /\ Idle
    /\ n <= 2 \/ reserve_panics(vec, n)
    /\ vec' = IF reserve_panics(vec, n) THEN vec ELSE extend(vec, rep(TRUE, n))
    /\ old' = vec
    /\ last' = [Last("extend_repeat") EXCEPT !.index = n, !.flag = reserve_panics(vec, n)]
    /\ UNCHANGED <<it, twin>>

\* BitVec::from(&[Byte::MAX; n][..]): out is the vector built, unless it panics
FromBytes(n) ==
    /\ Idle
    /\ vec = new
    /\ last' = [Last("from_bytes_n") EXCEPT
                  !.index = n,
                  !.flag = from_bytes_panics(rep(BYTE_MAX, n)),
                  !.out = IF from_bytes_panics(rep(BYTE_MAX, n)) THEN new
                          ELSE from_bytes(rep(BYTE_MAX, n))]
    /\ old' = vec
    /\ UNCHANGED vec
    /\ UNCHANGED <<it, twin>>

MaxByteCount == USIZE_MAX \div BYTE_BITS + 2

NextOverflow ==
    \/ Return
    \/ PushTrue
    \/ \E additional \in NearOverflow(vec) : Reserve(additional)
    \/ \E n \in NearOverflow(vec) : ExtendRepeat(n)
    \/ \E n \in 0..MaxByteCount : FromBytes(n)

SpecOverflow == InitOverflow /\ [][NextOverflow]_vars

(***************************************************************************)
(* The claims.                                                              *)
(***************************************************************************)
\* the bits a vector shows through get agree with those of another
LogicalEq(a, b) ==
    /\ a.len = b.len
    /\ \A i \in 0..(a.len - 1) : get(a, i) = get(b, i)

\* whether bit i of the storage is allocated and holds a set bit
StoredBit(self, i) ==
    /\ i < Len(self.buf) * WORD_BITS
    /\ get_unchecked(self, i)

bit_apply(op, left, right) ==
    CASE op = "and" -> left /\ right
      [] op = "or"  -> left \/ right
      [] op = "xor" -> left # right

\* C1: in every reachable state the storage holds at least ceil(len / WORD_BITS)
\* words, in the receiver and in every vector an operation returned.
C1_BufUsed ==
    /\ buf_used(vec) <= Len(vec.buf)
    /\ buf_used(last.out) <= Len(last.out.buf)

\* shrink_to with a bound below the length dropped slack words and kept the live ones
C1_Witness ==
    /\ last.op = "shrink_to"
    /\ last.index < vec.len
    /\ Len(vec.buf) < Len(old.buf)
    /\ Len(vec.buf) = buf_used(vec)

\* C2: A == B is true exactly when the lengths agree and every bit below the
\* length agrees, whatever the padding bits and the slack words; either way round.
C2_EqIsLogical ==
    last.op = "eq" =>
        /\ last.flag <=> LogicalEq(vec, last.rhs)
        /\ eq(last.rhs, vec) <=> LogicalEq(vec, last.rhs)

\* equal vectors whose last live words differ and whose storage differs in length
C2_Witness ==
    /\ last.op = "eq"
    /\ last.flag
    /\ vec.len > WORD_BITS
    /\ vec.buf[buf_used(vec)] # last.rhs.buf[buf_used(vec)]
    /\ Len(vec.buf) # Len(last.rhs.buf)

\* C3: two vectors that compare equal feed the same values to the hasher.
C3_HashOfEqual ==
    (last.op = "hash" /\ eq(vec, last.rhs)) => last.feed[1] = last.feed[2]

\* equal vectors hashed, one with a stale bit in its last live word and a stale word
C3_Witness ==
    /\ last.op = "hash"
    /\ eq(vec, last.rhs)
    /\ vec.len > 0
    /\ vec.buf[buf_used(vec)] # last.rhs.buf[buf_used(vec)]
    /\ Len(vec.buf) > buf_used(vec)
    /\ last.feed[1] = last.feed[2]

\* C4: push(b) makes the length one more, makes b the bit at the old length and
\* leaves every bit below the old length as it was.
C4_Push ==
    last.op = "push" =>
        /\ vec.len = old.len + 1
        /\ get(vec, old.len) = Some(last.value)
        /\ \A i \in 0..(old.len - 1) : get(vec, i) = get(old, i)

\* false pushed into a slack word whose first bit was set
C4_Witness ==
    /\ last.op = "push"
    /\ old.len > 0
    /\ old.len % WORD_BITS = 0
    /\ StoredBit(old, old.len)
    /\ ~last.value
    /\ get(vec, old.len) = Some(FALSE)

\* C5: pop() on an empty vector returns None and changes nothing; otherwise it
\* returns the last bit, makes the length one less and leaves the bits below.
C5_Pop ==
    last.op = "pop" =>
        IF old.len = 0
        THEN last.opt = None /\ vec = old
        ELSE /\ last.opt = get(old, old.len - 1)
             /\ last.opt.some
             /\ vec.len = old.len - 1
             /\ \A i \in 0..(vec.len - 1) : get(vec, i) = get(old, i)

\* the first bit of the second word popped, and it was set
C5_Witness ==
    /\ last.op = "pop"
    /\ old.len = WORD_BITS + 1
    /\ last.opt = Some(TRUE)
    /\ vec.len = WORD_BITS

\* C6: push(b) then pop() returns Some(b) and leaves a vector that compares
\* equal to, and hashes as, the vector before the push.
C6_PushPop ==
    last.op = "push_pop" =>
        /\ last.opt = Some(last.value)
        /\ eq(vec, old)
        /\ hash(vec) = hash(old)

\* the push changed a bit of the storage, which the pop left behind
C6_Witness ==
    /\ last.op = "push_pop"
    /\ vec.len > 0
    /\ vec.buf # old.buf
    /\ eq(vec, old)

\* C7: get(i) is None and vec[i] panics exactly when i >= len; below len both
\* give the bit at i.  A set bit of the storage at or beyond len is not read.
C7_GetIndex ==
    /\ last.op = "get" =>
          /\ last.opt.some <=> last.index < vec.len
          /\ last.index < vec.len => last.opt = Some(into_bits(vec)[last.index + 1])
    /\ last.op = "index" =>
          /\ last.flag <=> last.index >= vec.len
          /\ ~last.flag => last.opt = get(vec, last.index)

\* get of an allocated, set bit beyond the length gave None
C7_Witness ==
    /\ last.op = "get"
    /\ last.index >= vec.len
    /\ StoredBit(vec, last.index)
    /\ last.opt = None

\* C8: set(i, b) with i >= len returns None and changes nothing; with i < len
\* it returns Some, makes b the bit at i and leaves len and the other bits.
C8_Set ==
    last.op = "set" =>
        IF last.index >= old.len
        THEN ~last.flag /\ vec = old
        ELSE /\ last.flag
             /\ get(vec, last.index) = Some(last.value)
             /\ vec.len = old.len
             /\ \A j \in 0..(old.len - 1) : j # last.index => get(vec, j) = get(old, j)

\* a set bit of the second word cleared
C8_Witness ==
    /\ last.op = "set"
    /\ last.flag
    /\ last.index >= WORD_BITS
    /\ get(old, last.index) = Some(TRUE)
    /\ get(vec, last.index) = Some(FALSE)

\* C9: A op B has the length min(len(A), len(B)) and exactly
\* ceil(min(len(A), len(B)) / WORD_BITS) words.
C9_BitopLen ==
    last.op = "bitop" =>
        /\ last.out.len = Min(old.len, last.rhs.len)
        /\ Len(last.out.buf) = div_ceil(Min(old.len, last.rhs.len), WORD_BITS)

\* both operands held more words than the result
C9_Witness ==
    /\ last.op = "bitop"
    /\ last.form = "ref_ref"
    /\ last.out.len > 0
    /\ Len(old.buf) > Len(last.out.buf)
    /\ Len(last.rhs.buf) > Len(last.out.buf)

\* C10: bit i of A op B is bit i of A op bit i of B for every i below the shorter
\* length; AND of 20 true bits with 9 alternating bits is the 9 alternating bits.
C10_BitopBits ==
    last.op = "bitop" =>
        /\ \A i \in 0..(Min(old.len, last.rhs.len) - 1) :
              get(last.out, i) =
                  Some(bit_apply(last.bop, get(old, i).val, get(last.rhs, i).val))
        /\ (last.bop = "and" /\ old = AllTrue20 /\ last.rhs = Alt9) =>
              (last.out.len = 9 /\ eq(last.out, Alt9))

\* the example of the spec
C10_Witness ==
    /\ last.op = "bitop"
    /\ last.bop = "and"
    /\ old = AllTrue20
    /\ last.rhs = Alt9
    /\ eq(last.out, Alt9)

\* C11: both forms of NOT keep the length and negate every bit below it; the
\* first ceil(len / WORD_BITS) words are flipped, the consuming form leaves the
\* slack words as they were and the borrowing form drops them; !!A == A.
C11_Not ==
    last.op = "not" =>
        LET used == buf_used(old)
            again == IF last.form = "owned" THEN not(last.out) ELSE not_ref(last.out)
        IN  /\ last.out.len = old.len
            /\ \A i \in 0..(old.len - 1) : get(last.out, i) = Some(~get(old, i).val)
            /\ \A j \in 1..used : last.out.buf[j] = word_not(old.buf[j])
            /\ IF last.form = "owned"
               THEN /\ Len(last.out.buf) = Len(old.buf)
                    /\ \A j \in (used + 1)..Len(old.buf) : last.out.buf[j] = old.buf[j]
               ELSE Len(last.out.buf) = used
            /\ eq(again, old)

\* the consuming NOT of a vector with a partial last word and a slack word
C11_Witness ==
    /\ last.op = "not"
    /\ last.form = "owned"
    /\ old.len % WORD_BITS # 0
    /\ Len(old.buf) > buf_used(old)
    /\ Len(last.out.buf) = Len(old.buf)

\* C12: for A and B of equal length, (A & B) | (A & !B) compares equal to A, and
\* has the bits of A, whatever the padding bits of A, of B and of !B.
C12_Absorption ==
    last.op = "absorb" =>
        /\ eq(last.out, old)
        /\ eq(old, last.out)
        /\ LogicalEq(last.out, old)

\* the padding bits of !B are set and a padding bit of the result is set
C12_Witness ==
    /\ last.op = "absorb"
    /\ old.len % WORD_BITS # 0
    /\ StoredBit(not_ref(last.rhs), old.len)
    /\ StoredBit(last.out, old.len)
    /\ eq(last.out, old)

\* bit k of a byte, counted from its least significant end
ByteBit(byte, k) == (byte \div 2^k) % 2 = 1

\* C13: the vector built from n bytes has len = Byte::BITS * n, and its bit i is
\* bit (Byte::BITS - 1 - i mod Byte::BITS), counted from the least significant
\* end, of byte floor(i / Byte::BITS); it holds ceil(n / Word::BYTES) words and
\* the bits of the missing bytes of a partial last word are clear.
C13_FromBytes ==
    last.op = "from_bytes" =>
        /\ vec.len = BYTE_BITS * Len(last.bytes)
        /\ Len(vec.buf) = div_ceil(Len(last.bytes), WORD_BYTES)
        /\ \A i \in 0..(vec.len - 1) :
              get(vec, i) = Some(ByteBit(last.bytes[(i \div BYTE_BITS) + 1],
                                         BYTE_BITS - 1 - (i % BYTE_BITS)))
        /\ \A i \in vec.len..(Len(vec.buf) * WORD_BITS - 1) : ~StoredBit(vec, i)

\* more than a word of bytes with a partial last word, the last bit set
C13_Witness ==
    /\ last.op = "from_bytes"
    /\ Len(last.bytes) > WORD_BYTES
    /\ Len(last.bytes) % WORD_BYTES # 0
    /\ get(vec, vec.len - 1) = Some(TRUE)
    /\ old = vec

\* C14: when len is a multiple of Byte::BITS, the vector built from the
\* ceil(len / Byte::BITS) bytes that serialization writes compares equal to it.
C14_ByteRoundTrip ==
    (last.op = "serialize" /\ old.len % BYTE_BITS = 0) =>
        /\ Len(last.bytes) = div_ceil(old.len, BYTE_BITS)
        /\ last.out.len = old.len
        /\ eq(last.out, old)
        /\ eq(old, last.out)

\* a partial last word with a set padding bit, which the bytes do not carry
C14_Witness ==
    /\ last.op = "serialize"
    /\ old.len % BYTE_BITS = 0
    /\ old.len > WORD_BITS
    /\ old.len % WORD_BITS # 0
    /\ StoredBit(old, old.len)
    /\ last.out.buf # old.buf
    /\ eq(last.out, old)

\* C15: decoding {len, buf} with fewer than ceil(len / Byte::BITS) bytes in buf
\* fails with a decode error, in the sequence-shaped and the map-shaped encoding.
C15_DecodeError ==
    (last.op = "deserialize" /\ Len(last.bytes) < div_ceil(last.index, BYTE_BITS)) =>
        last.flag

\* C16: the length never wraps.  push panics exactly at len = usize::MAX,
\* reserve(n) and extend of an iterator of lower size bound n exactly when
\* len + n exceeds usize::MAX, building from n bytes exactly when
\* Byte::BITS * n exceeds usize::MAX; a call that panics changes nothing.
C16_NoWrap ==
    /\ vec.len <= USIZE_MAX
    /\ last.op = "push_true" =>
          /\ last.flag <=> old.len = USIZE_MAX
          /\ IF last.flag THEN vec = old ELSE vec.len = old.len + 1
    /\ last.op \in {"reserve", "extend_repeat"} =>
          /\ last.flag <=> old.len + last.index > USIZE_MAX
          /\ last.flag => vec = old
          /\ (~last.flag /\ last.op = "reserve") => vec.len = old.len
          /\ (~last.flag /\ last.op = "extend_repeat") => vec.len = old.len + last.index
    /\ last.op = "from_bytes_n" =>
          /\ last.flag <=> BYTE_BITS * last.index > USIZE_MAX
          /\ IF last.flag THEN last.out = new ELSE last.out.len = BYTE_BITS * last.index

\* push on a vector of usize::MAX bits panicked
C16_Witness ==
    /\ last.op = "push_true"
    /\ old.len = USIZE_MAX
    /\ last.flag
    /\ vec = old

\* C17: after reserve(additional) returns, capacity() >= len + additional, and
\* len, the bits and the initialized words are as before, slack words included.
C17_Reserve ==
    (last.op = "reserve" /\ ~last.flag) =>
        /\ capacity(vec) >= old.len + last.index
        /\ vec.len = old.len
        /\ LogicalEq(vec, old)
        /\ vec.buf = old.buf

\* the storage of a vector with a slack word was grown
C17_Witness ==
    /\ last.op = "reserve"
    /\ ~last.flag
    /\ Len(old.buf) > buf_used(old)
    /\ vec.cap > old.cap
    /\ vec.buf = old.buf

\* C18: after shrink_to_fit() the storage holds exactly ceil(len / WORD_BITS)
\* words; len and the bits are as before and the vector equals its old value.
C18_ShrinkToFit ==
    last.op = "shrink_to_fit" =>
        /\ Len(vec.buf) = buf_used(old)
        /\ vec.len = old.len
        /\ LogicalEq(vec, old)
        /\ eq(vec, old)
        /\ eq(old, vec)

\* a slack word was dropped from a vector that is not empty
C18_Witness ==
    /\ last.op = "shrink_to_fit"
    /\ old.len > 0
    /\ Len(old.buf) > buf_used(old)
    /\ Len(vec.buf) = buf_used(old)

\* C19: after shrink_to(min_bits) len and the bits are as before and
\* capacity() >= len; a capacity that was >= min_bits still is; a capacity at or
\* below max(len, min_bits) is unchanged, and so is the number of initialized
\* words; the initialized words never drop below ceil(len / WORD_BITS).
C19_ShrinkTo ==
    last.op = "shrink_to" =>
        /\ vec.len = old.len
        /\ LogicalEq(vec, old)
        /\ capacity(vec) >= vec.len
        /\ capacity(old) >= last.index => capacity(vec) >= last.index
        /\ capacity(old) <= Max(old.len, last.index) =>
              (capacity(vec) = capacity(old) /\ Len(vec.buf) = Len(old.buf))
        /\ Len(vec.buf) >= buf_used(vec)

\* a slack word dropped while the capacity kept the bound, above the length
C19_Witness ==
    /\ last.op = "shrink_to"
    /\ last.index > old.len
    /\ old.len > 0
    /\ Len(vec.buf) < Len(old.buf)
    /\ capacity(vec) >= last.index

\* C20: v.clone() compares equal to v, has its len and holds exactly
\* ceil(len / WORD_BITS) words; v is left as it was.
C20_Clone ==
    last.op = "clone" =>
        /\ eq(last.out, old)
        /\ eq(old, last.out)
        /\ last.out.len = old.len
        /\ Len(last.out.buf) = buf_used(old)
        /\ vec \in {old, last.out}

\* the clone of a vector with a set padding bit and a slack word
C20_Witness ==
    /\ last.op = "clone"
    /\ old.len % WORD_BITS # 0
    /\ StoredBit(old, old.len)
    /\ Len(old.buf) > buf_used(old)
    /\ Len(last.out.buf) < Len(old.buf)

\* C21: whatever the order of the calls, the k-th next() returns the bit at
\* index k - 1 and the k-th next_back() the bit at index n - k; no index is read
\* twice, none at or beyond n, and None is returned only after all n items.
C21_IterOrder ==
    it.kind # "none" =>
        LET n == it.iter.vec.len
        IN  /\ (it.call = "next" /\ it.item.some) =>
                  it.item = get(it.iter.vec, it.fronts - 1)
            /\ (it.call = "next_back" /\ it.item.some) =>
                  it.item = get(it.iter.vec, n - it.backs)
            /\ ~it.dup
            /\ it.reads \subseteq 0..(n - 1)
            /\ Cardinality(it.reads) = it.count
            /\ it.count = it.fronts + it.backs
            /\ it.nones > 0 => (it.count = n /\ it.reads = 0..(n - 1))

\* the owning iterator met in the middle of a vector of more than a word with a
\* set bit beyond its length, and returned None
C21_Witness ==
    /\ it.kind = "into_iter"
    /\ it.iter.vec.len > WORD_BITS
    /\ StoredBit(it.iter.vec, it.iter.vec.len)
    /\ it.fronts > 1
    /\ it.backs > 1
    /\ it.nones > 0
    /\ it.count = it.iter.vec.len

\* C22: at every point the lower and the upper bound of the size hint are the
\* number of items not yet yielded; after a None, next() and next_back() return
\* None, and no item was yielded after a None.
C22_HintFused ==
    it.kind # "none" =>
        LET remaining == it.iter.vec.len - it.count
        IN  /\ SizeHint.lower = remaining
            /\ SizeHint.upper = Some(remaining)
            /\ ~it.resumed
            /\ it.nones > 0 =>
                  /\ ~Iter_next(it.iter).item.some
                  /\ ~Iter_next_back(it.iter).item.some
                  /\ ~IntoIter_next(it.iter).item.some
                  /\ ~IntoIter_next_back(it.iter).item.some

\* None returned twice, by next and then by next_back, at the end of a vector
\* read from both ends
C22_Witness ==
    /\ it.kind = "iter"
    /\ it.nones >= 2
    /\ it.call = "next_back"
    /\ it.fronts > 0
    /\ it.backs > 0
    /\ SizeHint.lower = 0

\* C23 as claimed: a pop that makes the length a multiple of WORD_BITS removes
\* the emptied word from the storage; popping every bit off WORD_BITS + 1 bits
\* leaves len = 0 and at most one word.
C23_PopTruncates ==
    /\ (last.op = "pop" /\ old.len > 0 /\ vec.len % WORD_BITS = 0) =>
          Len(vec.buf) = Len(old.buf) - 1
    /\ (last.op = "pop_all" /\ old.len = WORD_BITS + 1) =>
          (vec.len = 0 /\ Len(vec.buf) <= 1)

\* C23 as amended: a pop that makes the length a multiple of WORD_BITS leaves
\* the emptied word in the storage, as it was, as a slack word; popping every
\* bit off WORD_BITS + 1 bits leaves len = 0 and at least two words.
C23_PopKeepsWord ==
    /\ (last.op = "pop" /\ old.len > 0 /\ vec.len % WORD_BITS = 0) =>
          /\ Len(vec.buf) > buf_used(vec)
          /\ vec.buf[buf_used(vec) + 1] = old.buf[buf_used(old)]
    /\ (last.op = "pop_all" /\ old.len = WORD_BITS + 1) =>
          (vec.len = 0 /\ Len(vec.buf) >= 2)

\* the only bit of the second word popped: the word is still there
C23_Witness ==
    /\ last.op = "pop"
    /\ old.len = WORD_BITS + 1
    /\ vec.len = WORD_BITS
    /\ Len(vec.buf) = 2

\* C25: pop() never changes the number of initialized words; popping every bit
\* off WORD_BITS + 1 bits leaves len = 0 and the 2 words, or the 3 words, it had.
C25_PopFrame ==
    /\ last.op \in {"pop", "pop_all"} => Len(vec.buf) = Len(old.buf)
    /\ (last.op = "pop_all" /\ old.len = WORD_BITS + 1) =>
          /\ vec.len = 0
          /\ Len(old.buf) = 2 => Len(vec.buf) = 2
          /\ Len(old.buf) = 3 => Len(vec.buf) = 3

\* every bit popped off WORD_BITS + 1 bits stored with a slack word
C25_Witness ==
    /\ last.op = "pop_all"
    /\ old.len = WORD_BITS + 1
    /\ Len(old.buf) = 3
    /\ vec.len = 0
    /\ Len(vec.buf) = 3

\* the items an iterator yields until None, from the front or from the back
RECURSIVE Collect(_, _, _)
Collect(kind, iter, back) ==
    LET r == IF kind = "iter"
             THEN IF back THEN Iter_next_back(iter) ELSE Iter_next(iter)
             ELSE IF back THEN IntoIter_next_back(iter) ELSE IntoIter_next(iter)
    IN  IF ~r.item.some THEN <<>>
        ELSE <<r.item.val>> \o Collect(kind, r.iter, back)

\* what the reading operations return for a vector
Observed(self) ==
    [len |-> self.len,
     get |-> [i \in 0..MaxIndex |-> get(self, i)],
     index |-> [i \in 0..MaxIndex |->
                   IF index_panics(self, i) THEN "panic" ELSE <<index(self, i)>>],
     iter |-> Collect("iter", Iter_new(self), FALSE),
     iter_rev |-> Collect("iter", Iter_new(self), TRUE),
     into_iter |-> Collect("into_iter", IntoIter_new(self), FALSE),
     into_iter_rev |-> Collect("into_iter", IntoIter_new(self), TRUE),
     bits |-> into_bits(self),
     eq |-> [rhs \in TwinRhs \cup {new, from_iter(into_bits(self))} |->
                <<eq(self, rhs), eq(rhs, self)>>],
     hash |-> hash(self),
     pop |-> pop(self).ret]

\* C24: two vectors of the same length and bits that differ in the bits stored
\* beyond the length and in their slack words give the same results through
\* get, indexing, both iterators in both directions, the conversion to bits,
\* ==, hashing and pop, and still do after the same calls of push, pop, set,
\* extend, shrink_to_fit, shrink_to, the binary operators and ! on both.
C24_Indistinguishable ==
    /\ Observed(vec) = Observed(twin)
    /\ eq(vec, twin)
    /\ eq(twin, vec)

\* after a call on both, the two differ in a bit beyond the length and in the
\* number of words stored
C24_Witness ==
    /\ last.op = "twin"
    /\ vec.len > 0
    /\ vec.len % WORD_BITS # 0
    /\ get_unchecked(vec, vec.len) # get_unchecked(twin, vec.len)
    /\ Len(vec.buf) # Len(twin.buf)

\* C26 as stated: push() appends a word exactly when the length is a multiple
\* of WORD_BITS, and otherwise writes into the partial word and keeps the
\* number of words.
C26_PushAppends ==
    last.op = "push" =>
        IF old.len % WORD_BITS = 0
        THEN vec.buf = Append(old.buf, IF last.value THEN MSB_SET ELSE MSB_CLEAR)
        ELSE /\ Len(vec.buf) = Len(old.buf)
             /\ get_unchecked(vec, old.len) = last.value

\* C26: push() appends a word exactly when no word is stored at the position of
\* bit len (len is a multiple of WORD_BITS and there is no slack word): the word
\* is MSB_SET for true and MSB_CLEAR for false.  Otherwise, in a partial word or
\* in a slack word, it writes the bit at position len and changes neither the
\* number of words nor any other stored bit.
C26_PushReuses ==
    last.op = "push" =>
        IF old.len = Len(old.buf) * WORD_BITS
        THEN vec.buf = Append(old.buf, IF last.value THEN MSB_SET ELSE MSB_CLEAR)
        ELSE /\ Len(vec.buf) = Len(old.buf)
             /\ get_unchecked(vec, old.len) = last.value
             /\ \A j \in 0..(Len(old.buf) * WORD_BITS - 1) :
                   j # old.len => get_unchecked(vec, j) = get_unchecked(old, j)

\* a bit pushed at a word-aligned length into a slack word that held set bits
C26_Witness ==
    /\ last.op = "push"
    /\ old.len = WORD_BITS
    /\ Len(old.buf) = 2
    /\ old.buf[2] # CLEAR
    /\ ~last.value
    /\ Len(vec.buf) = 2
    /\ \E j \in (WORD_BITS + 1)..(2 * WORD_BITS - 1) : get_unchecked(vec, j)

\* C27: for &, | and ^ the four impls (owned op owned, owned op &, & op owned,
\* & op &) return vectors that are == to each other, of the same length and
\* bits; & op owned, which evaluates rhs op &self, has the length and the bits
\* of self op &rhs.
C27_OwnershipForms ==
    last.op = "bitop" =>
        /\ \A form \in Forms :
              LET r == bitop(form, last.bop, old, last.rhs)
              IN  /\ eq(r, last.out)
                  /\ eq(last.out, r)
                  /\ LogicalEq(r, last.out)
        /\ LogicalEq(bitwise_operation_consume_self(last.rhs, old, last.bop),
                     bitwise_operation_consume_self(old, last.rhs, last.bop))

\* & op owned on operands of different lengths and different bits, the second
\* one stored with a slack word
C27_Witness ==
    /\ last.op = "bitop"
    /\ last.form = "ref_owned"
    /\ old.len > last.rhs.len
    /\ last.rhs.len > 0
    /\ Len(last.rhs.buf) > buf_used(last.rhs)
    /\ \E i \in 0..(last.rhs.len - 1) : get(old, i) # get(last.rhs, i)
    /\ last.out.len = last.rhs.len

RECURSIVE BitsValue(_)
\* the number whose binary digits are bits, the last one the least significant
BitsValue(bits) ==
    IF bits = <<>> THEN 0
    ELSE 2 * BitsValue(SubSeq(bits, 1, Len(bits) - 1))
           + (IF bits[Len(bits)] THEN 1 ELSE 0)

\* what a vector of these bits is to feed: the length, the full words before
\* the last live word (a slice, after its length), the last live word with its
\* last bit as the least significant one
FeedOf(bits) ==
    LET n == Len(bits)
        p == (n - 1) \div WORD_BITS
    IN  <<n>> \o <<p>>
          \o [i \in 1..p |-> BitsValue(SubSeq(bits, (i - 1) * WORD_BITS + 1, i * WORD_BITS))]
          \o <<BitsValue(SubSeq(bits, p * WORD_BITS + 1, n))>>

\* C28 as stated: every vector feeds its length first, then the head words and
\* the shifted last live word.
C28_HashFeedsLen ==
    last.op = "hash" =>
        /\ Len(last.feed[1]) >= 1
        /\ last.feed[1][1] = vec.len
        /\ vec.len > 0 => last.feed[1] = FeedOf(into_bits(vec))

\* C28: a vector that is not empty feeds the hasher its length, then the words
\* before the last live word as they are, then the last live word shifted right
\* until bit len - 1 is the least significant: values fixed by the length and
\* the bits below it.  An empty vector feeds nothing.
C28_HashFeed ==
    last.op = "hash" =>
        IF vec.len = 0 THEN last.feed[1] = <<>>
        ELSE last.feed[1] = FeedOf(into_bits(vec))

\* hashed with a full word before the last live word, which has a set bit
\* beyond the length
C28_Witness ==
    /\ last.op = "hash"
    /\ vec.len > WORD_BITS
    /\ vec.len % WORD_BITS # 0
    /\ get_unchecked(vec, vec.len)
    /\ last.feed[1] = FeedOf(into_bits(vec))

\* C29: extend(xs) keeps the bits the vector had, makes the length
\* len + len(xs) and bit len + k equal to xs[k]; a vector collected from xs
\* (from_iter, which From<&[Bit]>, From<[Bit; N]>, From<Vec<Bit>> and bitvec!
\* call) is the vector extend(xs) makes of an empty one, and its conversion to
\* a list of bits is xs.
C29_Extend ==
    /\ last.op = "extend" =>
          /\ vec.len = old.len + Len(last.bits)
          /\ \A i \in 0..(old.len - 1) : get(vec, i) = get(old, i)
          /\ \A k \in 0..(Len(last.bits) - 1) :
                get(vec, old.len + k) = Some(last.bits[k + 1])
          /\ get(vec, old.len + Len(last.bits)) = None
    /\ last.op = "from_iter" =>
          LET extended == extend(new, last.bits)
          IN  /\ eq(vec, extended)
              /\ eq(extended, vec)
              /\ LogicalEq(vec, extended)
              /\ into_bits(vec) = last.bits
              /\ into_bits(extended) = last.bits
              /\ Collect("into_iter", IntoIter_new(vec), FALSE) = last.bits

\* two different bits appended across a word boundary to a vector that has a
\* slack word
C29_Witness ==
    /\ last.op = "extend"
    /\ old.len % WORD_BITS = WORD_BITS - 1
    /\ Len(old.buf) > buf_used(old)
    /\ Len(last.bits) = 2
    /\ last.bits[1] # last.bits[2]
    /\ vec.len = old.len + 2

\* C30: the serialized fields are fixed by the length and the bits: a vector
\* that is == to the serialized one (the one collected from its bits) serializes
\* to the same len and the same div_ceil(len, BYTE_BITS) bytes, whatever bits
\* the last serialized byte holds beyond the length.
C30_SerializedByContent ==
    last.op = "serialize" =>
        LET other == from_iter(into_bits(vec))
        IN  (eq(vec, other) /\ eq(other, vec)) =>
                /\ other.len = last.index
                /\ Len(last.bytes) = div_ceil(vec.len, BYTE_BITS)
                /\ serialize_buf(other) = last.bytes

====
